---- MODULE Spec2Model ----
(***************************************************************************)
(* Model of the LiveVoice session manager (src/unnamed/part_000, the       *)
(* LiveVoice React component) and of the audio helpers it uses             *)
(* (src/services/geminiService.ts).                                        *)
(*                                                                         *)
(* The component is single threaded: every callback runs as one task of    *)
(* the event loop, and the continuation of an `await` on an already        *)
(* settled promise runs as a microtask before the next task.  The model    *)
(* keeps the suspension points of the code (connect awaiting resume() and  *)
(* getUserMedia(), disconnect awaiting the session promise, onmessage      *)
(* awaiting convertPCMToAudioBuffer) and lets a task start only when no    *)
(* microtask is runnable (Quiescent).                                      *)
(*                                                                         *)
(* React state (status, isConnected, ...) holds the value last handed to   *)
(* its setter.  setTranscript is the one setter whose argument can be a    *)
(* function of the previous state; React runs such an updater either at    *)
(* the call or at the next render, so the model keeps the queue of         *)
(* updates that have not been rendered yet (updateQueue).                  *)
(***************************************************************************)
EXTENDS Integers, Sequences, FiniteSets, TLC

\* ---- bounds of the model ------------------------------------------------
MaxConnects == 2      \* connect() calls in one behaviour
MaxClock == 2         \* readings of AudioContext.currentTime: 0..MaxClock
MaxCursor == 3        \* values of the playback cursor: 0..MaxCursor
MaxDuration == 2      \* AudioBuffer.duration of an inbound frame: 1..MaxDuration
MaxBuf == 1           \* characters held by one transcription buffer
MaxEntries == 2       \* entries of the transcript, rendered or queued
MaxFrames == 2        \* audio frames captured from the microphone, all sessions together
MaxNow == 1           \* readings of Date.now(), in milliseconds: 0..MaxNow
MaxSamples == 2       \* samples of one audio frame

Attempts == 1..MaxConnects

\* ---- React state (part_000 lines 7-19) ----------------------------------
VARIABLES status, isConnected, volume, errorMessage, permissionDenied,
          transcript, realtimeText, updateQueue
\* ---- refs (part_000 lines 21-31) ----------------------------------------
VARIABLES audioContextRef, inputContextRef, sessionRef, nextStartTimeRef,
          sourcesRef, streamRef, processorRef,
          currentInputBuffer, currentOutputBuffer
\* ---- the environment: one entry per connect() call ----------------------
VARIABLES attempts,     \* number of connect() calls made so far
          call,         \* where each connect() call is suspended
          promise,      \* state of the promise returned by ai.live.connect
          ws,           \* state of the remote session (its web socket)
          stream,       \* the MediaStream getUserMedia returned to the call
          processor,    \* the ScriptProcessorNode created by its onopen
          currentTime,  \* AudioContext.currentTime of the output context
          now,          \* Date.now()
          handler,      \* the onmessage call suspended at its await, if any
          awaiting,     \* session promises awaited by suspended disconnect() calls
          mounted,      \* the component is mounted
          outbox,       \* per connect() call, the frames whose send waits as a reaction
                        \* of its session promise (line 120), oldest first
          frame         \* the audio frame in the hands of the encoding helpers
\* ---- history, read only by the properties -------------------------------
VARIABLES cancelled,    \* connect() calls that were in progress when a disconnect() completed
          sent,         \* per connect() call, the frames handed to sendRealtimeInput
          stopped       \* handles stopped by the last interruption; -1 when none
                        \* was handled since connect() or since a frame was queued

reactVars == <<status, isConnected, volume, errorMessage, permissionDenied,
               transcript, realtimeText, updateQueue>>
refVars == <<audioContextRef, inputContextRef, sessionRef, nextStartTimeRef,
             sourcesRef, streamRef, processorRef,
             currentInputBuffer, currentOutputBuffer>>
envVars == <<attempts, call, promise, ws, stream, processor, currentTime, now, outbox, frame,
             handler, awaiting, mounted>>
histVars == <<cancelled, stopped, sent>>
vars == <<reactVars, refVars, envVars, histVars>>

NULL == "null"
NoHandler == [kind |-> "none"]

\* No frame is in the hands of the encoding helpers
NoFrame == [stage |-> "none"]

\* realtimeText when it is null: the live partial view shows nothing
NoText == [role |-> "none", text |-> <<>>]

Max(a, b) == IF a >= b THEN a ELSE b

\* ---- the playback timeline (part_000 lines 179 and 196-197) --------------
\* A frame starts at the cursor, without the clamp to the device clock.
StartTimeUnclamped(cursor, clock) == cursor

\* A frame starts at the device clock, whatever is queued.
StartTimeClockOnly(cursor, clock) == clock

\* nextStartTimeRef.current = Math.max(nextStartTimeRef.current, ctx.currentTime)
StartTime(cursor, clock) == Max(cursor, clock)

\* The cursor is left where the frame starts.
AdvanceCursorStuck(cursor, d) == cursor

\* nextStartTimeRef.current += audioBuffer.duration
AdvanceCursor(cursor, d) == cursor + d

\* The end of the frame that ends last among the handles S
LastEnd(S) == CHOOSE e \in {s.start + s.duration : s \in S} :
                  \A s \in S : s.start + s.duration <= e

\* ---- text ----------------------------------------------------------------
\* A string is a sequence of characters; " " is the one whitespace character.
Chars == {"a", " "}

RECURSIVE TrimStart(_)
TrimStart(s) == IF s # <<>> /\ Head(s) = " " THEN TrimStart(Tail(s)) ELSE s

RECURSIVE TrimEnd(_)
TrimEnd(s) ==
    IF s # <<>> /\ s[Len(s)] = " " THEN TrimEnd(SubSeq(s, 1, Len(s) - 1)) ELSE s

\* String.prototype.trim
Trim(s) == TrimEnd(TrimStart(s))

\* ---- React: the queue of updates of `transcript` ---------------------------
\* An update is the value [] (connect, line 72) or an updater function
\* prev => [...prev, entry] (lines 152-157 and 163-168).  The entry is built
\* when React runs the updater: its text is the buffer and its id and
\* timestamp are Date.now() as they are at that moment.  An update also
\* records, for the properties, the trimmed text its buffer held at the call.
ClearUpdate == [kind |-> "set", role |-> "none", atCall |-> <<>>]
AppendUpdate(r, buf) == [kind |-> "append", role |-> r, atCall |-> Trim(buf)]

Entry(r, buf, t) ==
    [id |-> <<t, r>>, role |-> r, text |-> Trim(buf), timestamp |-> t]

\* The updater returns the new entry alone, without the entries before it.
ApplyUpdateReplaces(tr, u, inBuf, outBuf, t) ==
    IF u.kind = "set" THEN <<>>
    ELSE IF u.role = "user" THEN <<Entry("user", inBuf, t)>>
    ELSE <<Entry("model", outBuf, t)>>

\* One update of `transcript` run by React on the previous value tr
ApplyUpdate(tr, u, inBuf, outBuf, t) ==
    IF u.kind = "set" THEN <<>>
    ELSE IF u.role = "user" THEN Append(tr, Entry("user", inBuf, t))
    ELSE Append(tr, Entry("model", outBuf, t))

RECURSIVE Flush(_, _, _, _, _)
Flush(tr, q, inBuf, outBuf, t) ==
    IF q = <<>> THEN tr
    ELSE Flush(ApplyUpdate(tr, Head(q), inBuf, outBuf, t), Tail(q), inBuf, outBuf, t)

\* setTranscript(u).  React runs the update at the call when nothing is
\* queued before it (synchronous render, or eager state computation) and
\* queues it for the next render otherwise; atCall is React's choice.
SetTranscript(st, u, atCall, inBuf, outBuf, t) ==
    IF atCall /\ st.q = <<>>
    THEN [tr |-> ApplyUpdate(st.tr, u, inBuf, outBuf, t), q |-> <<>>]
    ELSE [tr |-> st.tr, q |-> Append(st.q, u)]

\* ---- the audio helpers (geminiService.ts lines 105-142, part_000 56-66) ----
\* A byte is 0..255 and a byte buffer a sequence of bytes.  A base64 string is
\* the sequence of its characters, each the value 0..63 it stands for, '=' Pad.
\* A sample is a number of 65536ths: x = q / 65536, so [-1, 1] is
\* -65536..65536 and one step of 16-bit PCM, 1/32768, is 2.
Pad == 64

\* window.btoa on a string of characters 0..255, three characters at a time
RECURSIVE Btoa(_)
Btoa(b) ==
    IF b = <<>> THEN <<>>
    ELSE IF Len(b) = 1
    THEN <<b[1] \div 4, (b[1] % 4) * 16, Pad, Pad>>
    ELSE IF Len(b) = 2
    THEN <<b[1] \div 4, (b[1] % 4) * 16 + b[2] \div 16, (b[2] % 16) * 4, Pad>>
    ELSE <<b[1] \div 4, (b[1] % 4) * 16 + b[2] \div 16,
           (b[2] % 16) * 4 + b[3] \div 64, b[3] % 64>>
         \o Btoa(SubSeq(b, 4, Len(b)))

\* window.atob, four characters at a time
RECURSIVE Atob(_)
Atob(s) ==
    IF s = <<>> THEN <<>>
    ELSE LET b1 == s[1] * 4 + s[2] \div 16
             b2 == (s[2] % 16) * 16 + s[3] \div 4
             b3 == (s[3] % 4) * 64 + s[4]
         IN  (IF s[3] = Pad THEN <<b1>>
              ELSE IF s[4] = Pad THEN <<b1, b2>>
              ELSE <<b1, b2, b3>>)
             \o Atob(SubSeq(s, 5, Len(s)))

\* encodeAudioData (lines 115-122): String.fromCharCode of each byte, then btoa
EncodeAudioData(bytes) == Btoa(bytes)

\* Each character code is cut to 7 bits.
DecodeAudioDataAscii(base64) ==
    LET binaryString == Atob(base64)
    IN  [i \in 1..Len(binaryString) |-> binaryString[i] % 128]

\* decodeAudioData (lines 105-113): atob, then charCodeAt of each character
DecodeAudioData(base64) ==
    LET binaryString == Atob(base64)
    IN  [i \in 1..Len(binaryString) |-> binaryString[i]]

\* The conversion of a number to an element of an Int16Array: the fraction
\* is dropped, towards zero, and the integer is taken modulo 2^16 into
\* -32768..32767.  v is a number of halves.
ToInt16(v) ==
    LET n == IF v >= 0 THEN v \div 2 ELSE -((-v) \div 2)
    IN  ((n + 32768) % 65536) - 32768

\* The two bytes of an element of an Int16Array, low byte first
Int16Bytes(n) ==
    LET u == (n + 65536) % 65536
    IN  <<u % 256, u \div 256>>

RECURSIVE Int16Buffer(_)
Int16Buffer(int16) ==
    IF int16 = <<>> THEN <<>> ELSE Int16Bytes(Head(int16)) \o Int16Buffer(Tail(int16))

\* createBlob (lines 56-66): int16[i] = data[i] * 32768, and the bytes of the
\* array encoded.  data[i] * 32768 is data[i] / 2 when counted in 65536ths.
CreateBlobData(data) ==
    LET int16 == [i \in 1..Len(data) |-> ToInt16(data[i])]
    IN  EncodeAudioData(Int16Buffer(int16))

\* The element i of new Int16Array(data.buffer)
Int16At(data, i) ==
    LET u == data[2 * i - 1] + 256 * data[2 * i]
    IN  IF u >= 32768 THEN u - 65536 ELSE u

\* convertPCMToAudioBuffer (lines 131-140) on a buffer of even length:
\* channelData[i] = dataInt16[i] / 32768.0, in 65536ths
ChannelData(data) == [i \in 1..(Len(data) \div 2) |-> 2 * Int16At(data, i)]

\* The bytes and the samples the helpers are given
Bytes == {0, 1, 127, 128, 255}
ByteBuffers == UNION {[1..(2 * n) -> Bytes] : n \in 0..MaxSamples}
Samples == {-65536, -65535, -1, 0, 1, 65535, 65536}
SampleArrays == UNION {[1..n -> Samples] : n \in 0..MaxSamples}

\* encodeAudioData is given the bytes x
Encode(x) ==
    /\ frame = NoFrame
    /\ frame' = [stage |-> "encoded", from |-> "bytes", data |-> x,
                 wire |-> EncodeAudioData(x)]
    /\ UNCHANGED <<reactVars, refVars, histVars, attempts, call, promise, ws, stream,
                   processor, currentTime, now, outbox, handler, awaiting, mounted>>

\* createBlob is given the samples data
CreateBlob(data) ==
    /\ frame = NoFrame
    /\ frame' = [stage |-> "encoded", from |-> "samples", data |-> data,
                 wire |-> CreateBlobData(data)]
    /\ UNCHANGED <<reactVars, refVars, histVars, attempts, call, promise, ws, stream,
                   processor, currentTime, now, outbox, handler, awaiting, mounted>>

\* The encoded frame is decoded as an inbound payload is (lines 181-186):
\* decodeAudioData, then convertPCMToAudioBuffer
Decode ==
    /\ frame.stage = "encoded"
    /\ LET bytes == DecodeAudioData(frame.wire)
       IN  frame' = [stage |-> "decoded", from |-> frame.from, data |-> frame.data,
                     bytes |-> bytes, channelData |-> ChannelData(bytes)]
    /\ UNCHANGED <<reactVars, refVars, histVars, attempts, call, promise, ws, stream,
                   processor, currentTime, now, outbox, handler, awaiting, mounted>>

\* ---- scheduling -----------------------------------------------------------
\* The reactions of the session promises run as tasks, like timers.
QuiescentBeforeSends ==
    /\ handler = NoHandler
    /\ \A k \in awaiting : promise[k] = "pending"

\* The continuation of onmessage after its await runs as a task of its own.
QuiescentDuringDecode ==
    /\ \A k \in awaiting : promise[k] = "pending"
    /\ \A k \in Attempts : promise[k] = "resolved" => outbox[k] = <<>>

\* No microtask is runnable: no onmessage call is suspended at its await, no
\* disconnect() call awaits a promise that has settled, and no reaction is
\* registered on a session promise that has resolved.
Quiescent ==
    /\ handler = NoHandler
    /\ \A k \in awaiting : promise[k] = "pending"
    /\ \A k \in Attempts : promise[k] = "resolved" => outbox[k] = <<>>

\* React renders within a few milliseconds of an update, so the only tasks
\* that can run before the render are those of a burst the socket has already
\* received (messages, an error, a close) and the timers of the devices.  A
\* click, or the answer to a request a task has just made, finds the
\* component rendered.
Rendered == Quiescent /\ updateQueue = <<>>

\* ---- the connect/disconnect button (part_000 lines 390-392) --------------
\* The button is disabled on a refused permission only.
ButtonEnabledWhileConnecting == mounted /\ ~permissionDenied

\* disabled={permissionDenied || status === 'connecting'}
ButtonEnabled == mounted /\ ~permissionDenied /\ status # "connecting"

\* The button calls connect() whether or not a session is connected.
ButtonConnectsAlways == ButtonEnabled

\* onClick={isConnected ? disconnect : connect}
ButtonConnects == ButtonEnabled /\ ~isConnected
ButtonDisconnects == ButtonEnabled /\ isConnected

\* connect() calls that have not yet got their remote session
InProgress == {k \in Attempts : call[k] \in {"resume", "gum"} \/ promise[k] = "pending"}

Init ==
    /\ status = "disconnected"
    /\ isConnected = FALSE
    /\ volume = 0
    /\ errorMessage = ""
    /\ permissionDenied = FALSE
    /\ transcript = <<>>
    /\ realtimeText = NoText
    /\ updateQueue = <<>>
    /\ audioContextRef = NULL
    /\ inputContextRef = NULL
    /\ sessionRef = 0
    /\ nextStartTimeRef = 0
    /\ sourcesRef = {}
    /\ streamRef = 0
    /\ processorRef = 0
    /\ currentInputBuffer = <<>>
    /\ currentOutputBuffer = <<>>
    /\ attempts = 0
    /\ call = [k \in Attempts |-> "none"]
    /\ promise = [k \in Attempts |-> "none"]
    /\ ws = [k \in Attempts |-> "none"]
    /\ stream = [k \in Attempts |-> "none"]
    /\ processor = [k \in Attempts |-> "none"]
    /\ currentTime = 0
    /\ now = 0
    /\ frame = NoFrame
    /\ outbox = [k \in Attempts |-> <<>>]
    /\ sent = [k \in Attempts |-> <<>>]
    /\ handler = NoHandler
    /\ awaiting = {}
    /\ mounted = TRUE
    /\ cancelled = {}
    /\ stopped = -1

\* ---- connect (part_000 lines 68-235) --------------------------------------
\* The catch block takes every error for a generic failure.
ConnectCatchGeneric(micMessage) ==
    /\ status' = "error"
    /\ errorMessage' = "failed"
    /\ permissionDenied' = permissionDenied
    /\ isConnected' = FALSE

\* The catch block of connect, lines 224-234; micMessage is
\* error.message.includes('Microphone') || error.name === 'NotAllowedError' ...
ConnectCatch(micMessage) ==
    /\ status' = "error"
    /\ errorMessage' = IF micMessage THEN "mic-denied" ELSE "failed"
    /\ permissionDenied' = IF micMessage THEN TRUE ELSE permissionDenied
    /\ isConnected' = FALSE

\* Lines 69-77 and initAudio (lines 42-54), up to the first suspension:
\* `suspended` is audioContextRef.current.state === 'suspended', atCall is
\* React's choice for setTranscript([]).
Connect(suspended, atCall) ==
    /\ ButtonConnects
    /\ Rendered
    /\ attempts < MaxConnects
    /\ attempts' = attempts + 1
    /\ errorMessage' = ""
    /\ status' = "connecting"
    /\ permissionDenied' = FALSE
    /\ LET st == SetTranscript([tr |-> transcript, q |-> updateQueue], ClearUpdate,
                               atCall, <<>>, <<>>, now)
       IN  /\ Len(st.tr) + Len(st.q) <= MaxEntries
           /\ transcript' = st.tr
           /\ updateQueue' = st.q
    /\ currentInputBuffer' = <<>>
    /\ currentOutputBuffer' = <<>>
    /\ audioContextRef' = "ctx"
    /\ currentTime' = IF audioContextRef = NULL THEN 0 ELSE currentTime
    /\ inputContextRef' = "ctx"
    /\ call' = [call EXCEPT ![attempts + 1] = IF suspended THEN "resume" ELSE "gum"]
    /\ cancelled' = {}
    /\ UNCHANGED <<isConnected, volume, realtimeText, sessionRef, nextStartTimeRef,
                   sourcesRef, streamRef, processorRef, promise, ws, stream,
                   processor, now, frame, outbox, sent, handler, awaiting, mounted>>
    /\ stopped' = -1

\* audioContextRef.current.resume() resolves (line 52): connect goes on to
\* getUserMedia (line 83).
InitAudioResumed(k) ==
    /\ Rendered
    /\ call[k] = "resume"
    /\ call' = [call EXCEPT ![k] = "gum"]
    /\ UNCHANGED <<reactVars, refVars, histVars, attempts, promise, ws, stream,
                   processor, currentTime, now, frame, outbox, sent, handler, awaiting, mounted>>

\* resume() rejects: the catch block runs with an error that does not name
\* the microphone.
InitAudioFailed(k) ==
    /\ Rendered
    /\ call[k] = "resume"
    /\ call' = [call EXCEPT ![k] = "done"]
    /\ ConnectCatch(FALSE)
    /\ UNCHANGED <<volume, transcript, realtimeText, updateQueue, refVars, histVars,
                   attempts, promise, ws, stream, processor, currentTime, now, frame, outbox, sent,
                   handler, awaiting, mounted>>

\* getUserMedia resolves (line 83); ai.live.connect is called (line 90) and
\* its promise stored (line 222).
GumResolve(k) ==
    /\ Rendered
    /\ call[k] = "gum"
    /\ call' = [call EXCEPT ![k] = "done"]
    /\ streamRef' = k
    /\ stream' = [stream EXCEPT ![k] = "live"]
    /\ promise' = [promise EXCEPT ![k] = "pending"]
    /\ ws' = [ws EXCEPT ![k] = "connecting"]
    /\ sessionRef' = k
    /\ UNCHANGED <<reactVars, histVars, audioContextRef, inputContextRef,
                   nextStartTimeRef, sourcesRef, processorRef, currentInputBuffer,
                   currentOutputBuffer, attempts, processor, currentTime, now, frame, outbox, sent,
                   handler, awaiting, mounted>>

\* The names of the errors getUserMedia rejects with: access refused, no
\* usable device.
GumErrors == {"NotAllowedError", "NotFoundError"}

\* getUserMedia rejects with an error of the given name (lines 84-88).  The
\* handler does not look at the error: permissionDenied is set and the catch
\* block of connect runs with the error "Microphone permission denied".
GumReject(k, name) ==
    /\ Rendered
    /\ call[k] = "gum"
    /\ call' = [call EXCEPT ![k] = "done"]
    /\ ConnectCatch(TRUE)
    /\ UNCHANGED <<volume, transcript, realtimeText, updateQueue, refVars, histVars,
                   attempts, promise, ws, stream, processor, currentTime, now, frame, outbox, sent,
                   handler, awaiting, mounted>>

\* ---- callbacks of the remote session (part_000 lines 101-219) ------------
\* onopen (lines 102-128); the session promise of the call resolves once the
\* callback has returned.
RemoteOpen(k) ==
    /\ Rendered
    /\ ws[k] = "connecting"
    /\ promise[k] = "pending"
    /\ ws' = [ws EXCEPT ![k] = "open"]
    /\ promise' = [promise EXCEPT ![k] = "resolved"]
    /\ status' = "connected"
    /\ isConnected' = TRUE
    /\ IF inputContextRef # NULL /\ streamRef # 0
       THEN /\ processorRef' = k
            /\ processor' = [processor EXCEPT ![k] = "active"]
       ELSE UNCHANGED <<processorRef, processor>>
    /\ UNCHANGED <<volume, errorMessage, permissionDenied, transcript, realtimeText,
                   updateQueue, audioContextRef, inputContextRef, sessionRef,
                   nextStartTimeRef, sourcesRef, streamRef, currentInputBuffer,
                   currentOutputBuffer, attempts, call, stream, currentTime, now, frame, outbox, sent,
                   handler, awaiting, mounted, histVars>>

\* ai.live.connect fails: its promise rejects and no callback is ever called.
\* connect does not await the promise (line 90), so its catch block does not run.
RemoteReject(k) ==
    /\ Rendered
    /\ ws[k] = "connecting"
    /\ promise[k] = "pending"
    /\ ws' = [ws EXCEPT ![k] = "closed"]
    /\ promise' = [promise EXCEPT ![k] = "rejected"]
    /\ UNCHANGED <<reactVars, refVars, histVars, attempts, call, stream, processor,
                   currentTime, now, frame, outbox, sent, handler, awaiting, mounted>>

\* onerror (lines 213-218)
RemoteError(k) ==
    /\ Quiescent
    /\ ws[k] \in {"connecting", "open"}
    /\ ws' = [ws EXCEPT ![k] = "errored"]
    /\ errorMessage' = "connection-error"
    /\ status' = "error"
    /\ isConnected' = FALSE
    /\ UNCHANGED <<volume, permissionDenied, transcript, realtimeText, updateQueue,
                   refVars, histVars, attempts, call, promise, stream, processor,
                   currentTime, now, frame, outbox, sent, handler, awaiting, mounted>>

\* onclose (lines 209-212): the socket closes by itself, after an error, or
\* after session.close().
RemoteClose(k) ==
    /\ Quiescent
    /\ ws[k] \in {"connecting", "open", "errored", "closing"}
    /\ ws' = [ws EXCEPT ![k] = "closed"]
    /\ status' = "disconnected"
    /\ isConnected' = FALSE
    /\ UNCHANGED <<volume, errorMessage, permissionDenied, transcript, realtimeText,
                   updateQueue, refVars, histVars, attempts, call, promise, stream,
                   processor, currentTime, now, frame, outbox, sent, handler, awaiting, mounted>>

\* Frames the processor of call k has captured so far.
Captured(k) == Len(sent[k]) + Len(outbox[k])

\* Frames captured so far by the processors of calls 1..n.
RECURSIVE CapturedUpTo(_)
CapturedUpTo(n) == IF n = 0 THEN 0 ELSE Captured(n) + CapturedUpTo(n - 1)

\* processor.onaudioprocess (lines 112-123): v is the loudness of the frame;
\* the frame, the next one of the microphone stream, is encoded and its send
\* is registered as a reaction of the session promise of the call.
CaptureFrame(k, v) ==
    /\ Quiescent
    /\ processor[k] = "active"
    /\ CapturedUpTo(MaxConnects) < MaxFrames
    /\ volume' = v
    /\ outbox' = [outbox EXCEPT ![k] = Append(@, Captured(k) + 1)]
    /\ UNCHANGED <<status, isConnected, errorMessage, permissionDenied, transcript,
                   realtimeText, updateQueue, refVars, histVars, attempts, call,
                   promise, ws, stream, processor, currentTime, now, frame, handler,
                   awaiting, mounted>>

\* The reaction stays registered once it has run.
SendRealtimeInputAgain(k) ==
    /\ promise[k] = "resolved"
    /\ outbox[k] # <<>>
    /\ Len(sent[k]) < MaxFrames
    /\ sent' = [sent EXCEPT ![k] = Append(@, Head(outbox[k]))]
    /\ UNCHANGED <<reactVars, refVars, cancelled, stopped, attempts, call, promise,
                   ws, stream, processor, currentTime, now, frame, outbox, handler, awaiting,
                   mounted>>

\* The oldest reaction of a resolved session promise runs (lines 120-122):
\* session.sendRealtimeInput is called with its frame.
SendRealtimeInput(k) ==
    /\ promise[k] = "resolved"
    /\ outbox[k] # <<>>
    /\ sent' = [sent EXCEPT ![k] = Append(@, Head(outbox[k]))]
    /\ outbox' = [outbox EXCEPT ![k] = Tail(@)]
    /\ UNCHANGED <<reactVars, refVars, cancelled, stopped, attempts, call, promise,
                   ws, stream, processor, currentTime, now, frame, handler, awaiting,
                   mounted>>

\* ---- onmessage (part_000 lines 129-208) -----------------------------------
\* An inbound message: the text of its input and output transcription (<<>>
\* when absent or empty), turnComplete, interrupted, and its audio payload:
\* 0 none, NoAudio; Malformed a payload of odd byte length, on which
\* `new Int16Array(data.buffer)` throws (geminiService.ts line 131); d > 0 a
\* payload that decodes to a buffer of duration d.
NoAudio == 0
Malformed == -1

\* The interruption stops the handles and leaves the cursor where it is.
InterruptedKeepsCursor(flag, s) ==
    IF flag
    THEN [sources |-> {}, cursor |-> s.cursor, out |-> <<>>, rt |-> NoText,
          stopped |-> Cardinality(s.sources)]
    ELSE s

\* The interruption stops the handles and leaves the interrupted text buffered.
InterruptedKeepsText(flag, s) ==
    IF flag
    THEN [sources |-> {}, cursor |-> 0, out |-> s.out, rt |-> s.rt,
          stopped |-> Cardinality(s.sources)]
    ELSE s

\* The branch `if (message.serverContent?.interrupted)`, lines 201-207, applied
\* to s = [sources, cursor, out, rt, stopped].
Interrupted(flag, s) ==
    IF flag
    THEN [sources |-> {}, cursor |-> 0, out |-> <<>>, rt |-> NoText,
          stopped |-> Cardinality(s.sources)]
    ELSE s

\* Lines 130-181: the handler up to its await, and to its end when the message
\* has no audio payload.  e1 and e2 are React's choices for the two
\* setTranscript calls.
OnMessage(k, m, e1, e2) ==
    /\ Quiescent
    /\ ws[k] = "open"
    /\ Len(currentInputBuffer) + Len(m.inText) <= MaxBuf
    /\ Len(currentOutputBuffer) + Len(m.outText) <= MaxBuf
    /\ m.audio > 0 => Max(nextStartTimeRef, currentTime) + m.audio <= MaxCursor
    /\ LET in1 == currentInputBuffer \o m.inText
           out1 == currentOutputBuffer \o m.outText
           rt1 == IF m.outText # <<>> THEN [role |-> "model", text |-> out1]
                  ELSE IF m.inText # <<>> THEN [role |-> "user", text |-> in1]
                  ELSE realtimeText
           commitU == m.turnComplete /\ Trim(in1) # <<>>
           commitM == m.turnComplete /\ Trim(out1) # <<>>
           st0 == [tr |-> transcript, q |-> updateQueue]
           st1 == IF commitU
                  THEN SetTranscript(st0, AppendUpdate("user", in1), e1, in1, out1, now)
                  ELSE st0
           in2 == IF commitU THEN <<>> ELSE in1
           st2 == IF commitM
                  THEN SetTranscript(st1, AppendUpdate("model", out1), e2, in2, out1, now)
                  ELSE st1
           out2 == IF commitM THEN <<>> ELSE out1
           rt2 == IF m.turnComplete THEN NoText ELSE rt1
           hasAudio == m.audio # NoAudio /\ audioContextRef # NULL
           s == Interrupted(m.interrupted /\ ~hasAudio,
                            [sources |-> sourcesRef, cursor |-> nextStartTimeRef,
                             out |-> out2, rt |-> rt2, stopped |-> stopped])
       IN  /\ Len(st2.tr) + Len(st2.q) <= MaxEntries
           /\ transcript' = st2.tr
           /\ updateQueue' = st2.q
           /\ currentInputBuffer' = in2
           /\ currentOutputBuffer' = s.out
           /\ realtimeText' = s.rt
           /\ sourcesRef' = s.sources
           /\ stopped' = s.stopped
           /\ nextStartTimeRef' = IF hasAudio THEN StartTime(nextStartTimeRef, currentTime)
                                  ELSE s.cursor
           /\ handler' = IF hasAudio THEN [kind |-> "onmessage", msg |-> m] ELSE NoHandler
    /\ UNCHANGED <<status, isConnected, volume, errorMessage, permissionDenied,
                   audioContextRef, inputContextRef, sessionRef, streamRef,
                   processorRef, attempts, call, promise, ws, stream, processor,
                   currentTime, now, frame, outbox, sent, awaiting, mounted, cancelled>>

\* A payload that fails to decode is handled as an interruption.
OnMessageResumeFailureStops ==
    /\ handler # NoHandler
    /\ handler' = NoHandler
    /\ LET d == handler.msg.audio
           source == [start |-> nextStartTimeRef, duration |-> d]
           s == IF d = Malformed
                THEN Interrupted(TRUE,
                                 [sources |-> sourcesRef, cursor |-> nextStartTimeRef,
                                  out |-> currentOutputBuffer, rt |-> realtimeText,
                                  stopped |-> -1])
                ELSE Interrupted(handler.msg.interrupted,
                                 [sources |-> sourcesRef \cup {source},
                                  cursor |-> AdvanceCursor(nextStartTimeRef, d),
                                  out |-> currentOutputBuffer, rt |-> realtimeText,
                                  stopped |-> -1])
       IN  /\ sourcesRef' = s.sources
           /\ nextStartTimeRef' = s.cursor
           /\ currentOutputBuffer' = s.out
           /\ realtimeText' = s.rt
           /\ stopped' = s.stopped
    /\ UNCHANGED <<status, isConnected, volume, errorMessage, permissionDenied,
                   transcript, updateQueue, audioContextRef, inputContextRef,
                   sessionRef, streamRef, processorRef, currentInputBuffer,
                   attempts, call, promise, ws, stream, processor, currentTime, now, frame, outbox, sent,
                   awaiting, mounted, cancelled>>

\* Lines 181-207: the handler after its await.  A malformed payload makes
\* convertPCMToAudioBuffer reject, and the handler ends there.
OnMessageResume ==
    /\ handler # NoHandler
    /\ handler' = NoHandler
    /\ IF handler.msg.audio = Malformed
       THEN UNCHANGED <<sourcesRef, nextStartTimeRef, currentOutputBuffer,
                        realtimeText, stopped>>
       ELSE LET d == handler.msg.audio
                source == [start |-> nextStartTimeRef, duration |-> d]
                s == Interrupted(handler.msg.interrupted,
                                 [sources |-> sourcesRef \cup {source},
                                  cursor |-> AdvanceCursor(nextStartTimeRef, d),
                                  out |-> currentOutputBuffer, rt |-> realtimeText,
                                  stopped |-> -1])
            IN  /\ sourcesRef' = s.sources
                /\ nextStartTimeRef' = s.cursor
                /\ currentOutputBuffer' = s.out
                /\ realtimeText' = s.rt
                /\ stopped' = s.stopped
    /\ UNCHANGED <<status, isConnected, volume, errorMessage, permissionDenied,
                   transcript, updateQueue, audioContextRef, inputContextRef,
                   sessionRef, streamRef, processorRef, currentInputBuffer,
                   attempts, call, promise, ws, stream, processor, currentTime, now, frame, outbox, sent,
                   awaiting, mounted, cancelled>>

\* ---- disconnect (part_000 lines 237-264) ---------------------------------
\* Lines 240-263 without setErrorMessage('').
DisconnectTailKeepsError(j) ==
    /\ ws' = IF j # 0 /\ ws[j] = "open" THEN [ws EXCEPT ![j] = "closing"] ELSE ws
    /\ stream' = IF streamRef # 0 THEN [stream EXCEPT ![streamRef] = "stopped"]
                 ELSE stream
    /\ processor' = [k \in Attempts |->
                       IF processor[k] = "active"
                          /\ (k = processorRef \/ inputContextRef # NULL)
                       THEN "stopped" ELSE processor[k]]
    /\ inputContextRef' = NULL
    /\ audioContextRef' = NULL
    /\ currentTime' = 0
    /\ sourcesRef' = {}
    /\ status' = "disconnected"
    /\ isConnected' = FALSE
    /\ volume' = 0
    /\ errorMessage' = errorMessage
    /\ permissionDenied' = FALSE
    /\ realtimeText' = NoText
    /\ UNCHANGED <<transcript, updateQueue, sessionRef, nextStartTimeRef, streamRef,
                   processorRef, currentInputBuffer, currentOutputBuffer, attempts,
                   call, promise, now, frame, outbox, sent, handler, stopped>>

\* Lines 240-263, run once `await sessionRef.current` has returned the session
\* of call j (j = 0: sessionRef.current was null and nothing is closed).
\* Closing the input context stops every processor created on it.
DisconnectTail(j) ==
    /\ ws' = IF j # 0 /\ ws[j] = "open" THEN [ws EXCEPT ![j] = "closing"] ELSE ws
    /\ stream' = IF streamRef # 0 THEN [stream EXCEPT ![streamRef] = "stopped"]
                 ELSE stream
    /\ processor' = [k \in Attempts |->
                       IF processor[k] = "active"
                          /\ (k = processorRef \/ inputContextRef # NULL)
                       THEN "stopped" ELSE processor[k]]
    /\ inputContextRef' = NULL
    /\ audioContextRef' = NULL
    /\ currentTime' = 0
    /\ sourcesRef' = {}
    /\ status' = "disconnected"
    /\ isConnected' = FALSE
    /\ volume' = 0
    /\ errorMessage' = ""
    /\ permissionDenied' = FALSE
    /\ realtimeText' = NoText
    /\ UNCHANGED <<transcript, updateQueue, sessionRef, nextStartTimeRef, streamRef,
                   processorRef, currentInputBuffer, currentOutputBuffer, attempts,
                   call, promise, now, frame, outbox, sent, handler, stopped>>

\* disconnect() up to the end of its first task: with no session promise, or
\* a resolved one, it runs to its end; with a rejected one the await throws
\* and nothing else runs; with a pending one it is suspended.
Disconnect ==
    IF sessionRef = 0 \/ promise[sessionRef] = "resolved"
    THEN /\ DisconnectTail(sessionRef)
         /\ cancelled' = cancelled \cup InProgress
         /\ UNCHANGED awaiting
    ELSE IF promise[sessionRef] = "rejected"
    THEN UNCHANGED <<reactVars, refVars, histVars, attempts, call, promise, ws,
                     stream, processor, currentTime, now, frame, outbox, sent, handler,
                     awaiting>>
    ELSE /\ awaiting' = awaiting \cup {sessionRef}
         /\ UNCHANGED <<reactVars, refVars, histVars, attempts, call, promise, ws,
                        stream, processor, currentTime, now, frame, outbox, sent, handler>>

\* The button, while it reads "End Session" (line 391).
DisconnectClick ==
    /\ ButtonDisconnects
    /\ Rendered
    /\ Disconnect
    /\ UNCHANGED mounted

\* The cleanup of the effect of lines 267-272.
Unmount ==
    /\ mounted
    /\ Quiescent
    /\ mounted' = FALSE
    /\ Disconnect

\* A suspended disconnect() goes on once the promise it awaits has settled.
DisconnectResume(j) ==
    /\ handler = NoHandler
    /\ j \in awaiting
    /\ promise[j] # "pending"
    /\ awaiting' = awaiting \ {j}
    /\ IF promise[j] = "resolved"
       THEN /\ DisconnectTail(j)
            /\ cancelled' = cancelled \cup {j}
       ELSE UNCHANGED <<reactVars, refVars, histVars, attempts, call, promise, ws,
                        stream, processor, currentTime, now, frame, outbox, sent, handler>>
    /\ UNCHANGED mounted

\* ---- the clocks, the audio device and React -------------------------------
\* The output context renders: its clock advances.
Tick ==
    /\ Quiescent
    /\ audioContextRef # NULL
    /\ currentTime < MaxClock
    /\ currentTime' = currentTime + 1
    /\ UNCHANGED <<reactVars, refVars, histVars, attempts, call, promise, ws, stream,
                   processor, now, frame, outbox, sent, handler, awaiting, mounted>>

\* A millisecond passes: the next reading of Date.now() is one more.
WallTick ==
    /\ Quiescent
    /\ now < MaxNow
    /\ now' = now + 1
    /\ UNCHANGED <<reactVars, refVars, histVars, attempts, call, promise, ws, stream,
                   processor, currentTime, outbox, frame, handler, awaiting, mounted>>

\* The 'ended' listener of a source that has played to its end (lines 192-194).
Ended(source) ==
    /\ Quiescent
    /\ source \in sourcesRef
    /\ source.start + source.duration <= currentTime
    /\ sourcesRef' = sourcesRef \ {source}
    /\ UNCHANGED <<reactVars, audioContextRef, inputContextRef, sessionRef,
                   nextStartTimeRef, streamRef, processorRef, currentInputBuffer,
                   currentOutputBuffer, envVars, histVars>>

\* React renders: the queued updates of `transcript` run, in order.
Render ==
    /\ Quiescent
    /\ updateQueue # <<>>
    /\ transcript' = Flush(transcript, updateQueue, currentInputBuffer,
                           currentOutputBuffer, now)
    /\ updateQueue' = <<>>
    /\ UNCHANGED <<status, isConnected, volume, errorMessage, permissionDenied,
                   realtimeText, refVars, envVars, histVars>>

\* ---- inputs ----------------------------------------------------------------
Msg(i, o, tc, a, intr) ==
    [inText |-> i, outText |-> o, turnComplete |-> tc, audio |-> a, interrupted |-> intr]

\* Messages of the audio path: an audio payload, an interruption, or both.
AudioMessages ==
    {Msg(<<>>, <<>>, FALSE, a, intr) :
        a \in {NoAudio, Malformed} \cup (1..MaxDuration), intr \in BOOLEAN}
    \ {Msg(<<>>, <<>>, FALSE, NoAudio, FALSE)}

\* React's choices for the two setTranscript calls of one onmessage call: the
\* second runs at the call only if the first did.
Choices == {<<TRUE, TRUE>>, <<TRUE, FALSE>>, <<FALSE, FALSE>>}

\* The session with the messages of the audio path; React runs every update
\* of `transcript` at the call.
Next ==
    \/ \E suspended \in BOOLEAN : Connect(suspended, TRUE)
    \/ \E k \in Attempts : InitAudioResumed(k)
    \/ \E k \in Attempts : InitAudioFailed(k)
    \/ \E k \in Attempts : GumResolve(k)
    \/ \E k \in Attempts, name \in GumErrors : GumReject(k, name)
    \/ \E k \in Attempts : RemoteOpen(k)
    \/ \E k \in Attempts : RemoteReject(k)
    \/ \E k \in Attempts : RemoteError(k)
    \/ \E k \in Attempts : RemoteClose(k)
    \/ \E k \in Attempts : CaptureFrame(k, 1)
    \/ \E k \in Attempts : SendRealtimeInput(k)
    \/ DisconnectClick
    \/ Unmount
    \/ \E j \in Attempts : DisconnectResume(j)
    \/ \E k \in Attempts, m \in AudioMessages : OnMessage(k, m, FALSE, FALSE)
    \/ OnMessageResume
    \/ Tick
    \/ \E source \in sourcesRef : Ended(source)

Spec == Init /\ [][Next]_vars

\* The same session with no onaudioprocess event delivered: the capture
\* callback writes only `volume` and the outbound frames, which no other
\* handler reads.
NextPlayback ==
    \/ \E suspended \in BOOLEAN : Connect(suspended, TRUE)
    \/ \E k \in Attempts : InitAudioResumed(k)
    \/ \E k \in Attempts : InitAudioFailed(k)
    \/ \E k \in Attempts : GumResolve(k)
    \/ \E k \in Attempts, name \in GumErrors : GumReject(k, name)
    \/ \E k \in Attempts : RemoteOpen(k)
    \/ \E k \in Attempts : RemoteReject(k)
    \/ \E k \in Attempts : RemoteError(k)
    \/ \E k \in Attempts : RemoteClose(k)
    \/ DisconnectClick
    \/ Unmount
    \/ \E j \in Attempts : DisconnectResume(j)
    \/ \E k \in Attempts, m \in AudioMessages : OnMessage(k, m, FALSE, FALSE)
    \/ OnMessageResume
    \/ Tick
    \/ \E source \in sourcesRef : Ended(source)

SpecPlayback == Init /\ [][NextPlayback]_vars

\* The capture side of the session alone: frames are captured and sent while
\* the socket opens, fails or closes and disconnect() is called at any moment.
NextCapture ==
    \/ Connect(FALSE, TRUE)
    \/ \E k \in Attempts : GumResolve(k)
    \/ \E k \in Attempts : RemoteOpen(k)
    \/ \E k \in Attempts : RemoteError(k)
    \/ \E k \in Attempts : RemoteClose(k)
    \/ \E k \in Attempts, v \in 0..1 : CaptureFrame(k, v)
    \/ \E k \in Attempts : SendRealtimeInput(k)
    \/ DisconnectClick
    \/ Unmount
    \/ \E j \in Attempts : DisconnectResume(j)

SpecCapture == Init /\ [][NextCapture]_vars

\* Messages of the text path, each of one kind: an input or output
\* transcription delta, a turn-complete, an interruption.
Deltas == {<<>>} \cup {<<c>> : c \in Chars}

TextMessages ==
    {Msg(i, <<>>, FALSE, NoAudio, FALSE) : i \in Deltas \ {<<>>}}
    \cup {Msg(<<>>, o, FALSE, NoAudio, FALSE) : o \in Deltas \ {<<>>}}
    \cup {Msg(<<>>, <<>>, TRUE, NoAudio, FALSE), Msg(<<>>, <<>>, FALSE, NoAudio, TRUE)}

\* The session with the messages of the text path, on a device whose output
\* context is running and whose microphone is granted.
NextText ==
    \/ \E atCall \in BOOLEAN : Connect(FALSE, atCall)
    \/ \E k \in Attempts : GumResolve(k)
    \/ \E k \in Attempts : RemoteOpen(k)
    \/ \E k \in Attempts : RemoteClose(k)
    \/ DisconnectClick
    \/ Render
    \/ \E k \in Attempts, m \in TextMessages, e \in Choices : OnMessage(k, m, e[1], e[2])

SpecText == Init /\ [][NextText]_vars

\* The same session with a remote service that ends a session only when the
\* client closes it (session.close(), line 240).
NextTurns ==
    \/ \E atCall \in BOOLEAN : Connect(FALSE, atCall)
    \/ \E k \in Attempts : GumResolve(k)
    \/ \E k \in Attempts : RemoteOpen(k)
    \/ DisconnectClick
    \/ Render
    \/ \E k \in Attempts, m \in TextMessages, e \in Choices : OnMessage(k, m, e[1], e[2])

SpecTurns == Init /\ [][NextTurns]_vars

\* Messages of one turn: a transcription delta of either side, a turn-complete
TurnMessages ==
    {Msg(<<"a">>, <<>>, FALSE, NoAudio, FALSE), Msg(<<>>, <<"a">>, FALSE, NoAudio, FALSE),
     Msg(<<>>, <<>>, TRUE, NoAudio, FALSE)}

\* The session of such turns, with capture running, a socket that can
\* fail, and disconnect() called by the button or by the unmount cleanup at
\* any moment; React runs every update of `transcript` at the call.
NextTeardown ==
    \/ Connect(FALSE, TRUE)
    \/ \E k \in Attempts : GumResolve(k)
    \/ \E k \in Attempts : RemoteOpen(k)
    \/ \E k \in Attempts : RemoteError(k)
    \/ \E k \in Attempts : CaptureFrame(k, 1)
    \/ \E k \in Attempts : SendRealtimeInput(k)
    \/ \E k \in Attempts, m \in TurnMessages : OnMessage(k, m, TRUE, TRUE)
    \/ DisconnectClick
    \/ Unmount
    \/ \E j \in Attempts : DisconnectResume(j)

SpecTeardown == Init /\ [][NextTeardown]_vars

\* One session of turns on the wall clock: a task, or a render, takes less
\* than a millisecond or more.
NextClock ==
    \/ \E atCall \in BOOLEAN : Connect(FALSE, atCall)
    \/ \E k \in Attempts : GumResolve(k)
    \/ \E k \in Attempts : RemoteOpen(k)
    \/ Render
    \/ WallTick
    \/ \E k \in Attempts, m \in TurnMessages, e \in Choices : OnMessage(k, m, e[1], e[2])

SpecClock == Init /\ [][NextClock]_vars

\* The answers of the environment to the requests of a connect() call:
\* resume() settles, getUserMedia settles, the remote connect opens or fails.
ResumeAnswer == \E k \in Attempts : InitAudioResumed(k) \/ InitAudioFailed(k)
GumAnswer == \E k \in Attempts : GumResolve(k) \/ \E name \in GumErrors : GumReject(k, name)
RemoteAnswer == \E k \in Attempts : RemoteOpen(k) \/ RemoteReject(k)

\* The connect() calls of a session and what ends them, in an environment
\* that answers every request in the end.
NextConnecting ==
    \/ \E suspended \in BOOLEAN : Connect(suspended, TRUE)
    \/ ResumeAnswer
    \/ GumAnswer
    \/ RemoteAnswer
    \/ \E k \in Attempts : RemoteError(k)
    \/ \E k \in Attempts : RemoteClose(k)
    \/ DisconnectClick

SpecConnecting ==
    /\ Init
    /\ [][NextConnecting]_vars
    /\ WF_vars(ResumeAnswer)
    /\ WF_vars(GumAnswer)
    /\ WF_vars(RemoteAnswer)

\* The audio helpers alone, given a byte buffer of even length or an array of
\* samples in [-1, 1].
NextCodec ==
    \/ \E x \in ByteBuffers : Encode(x)
    \/ \E data \in SampleArrays : CreateBlob(data)
    \/ Decode

SpecCodec == Init /\ [][NextCodec]_vars

\* Messages of a spoken exchange: transcription deltas, a turn-complete,
\* audio payloads and interruptions.
ExchangeMessages == TurnMessages \cup AudioMessages

\* One session of such exchanges, from connect() on, while the microphone is
\* captured; React runs every update of `transcript` at the call.
NextExchange ==
    \/ Connect(FALSE, TRUE)
    \/ \E k \in Attempts : GumResolve(k)
    \/ \E k \in Attempts : RemoteOpen(k)
    \/ \E k \in Attempts, m \in ExchangeMessages : OnMessage(k, m, TRUE, TRUE)
    \/ OnMessageResume
    \/ Tick
    \/ \E source \in sourcesRef : Ended(source)

SpecExchange == Init /\ [][NextExchange]_vars

\* ---- steps the properties speak of ----------------------------------------
\* A step of connect()
ConnectStep == \E suspended \in BOOLEAN, atCall \in BOOLEAN : Connect(suspended, atCall)

\* A step in which a disconnect() call returns or throws
DisconnectStep ==
    \/ (DisconnectClick \/ Unmount) /\ awaiting' = awaiting
    \/ \E j \in Attempts : DisconnectResume(j)

\* The messages that carry 'interrupted'
InterruptedMessages == {m \in AudioMessages \cup TextMessages : m.interrupted}

\* A step in which the branch of lines 201-207 runs: a whole onmessage call
\* (which leaves the environment and the status as they are), or the part of
\* one that follows its await
InterruptedStep ==
    \/ /\ handler = NoHandler
       /\ handler' = NoHandler
       /\ UNCHANGED <<status, volume, attempts, call, promise, ws, stream, processor,
                      currentTime, awaiting, mounted>>
       /\ \E k \in Attempts, m \in InterruptedMessages, e \in Choices :
             OnMessage(k, m, e[1], e[2])
    \/ /\ handler # NoHandler
       /\ handler.msg.interrupted
       /\ handler.msg.audio # Malformed
       /\ OnMessageResume

\* A step in which onmessage reaches its await with an audio payload (line 181)
DecodeStep ==
    /\ handler = NoHandler
    /\ handler' # NoHandler

\* A step in which a decoded frame is started (lines 188-198)
ScheduleStep ==
    /\ handler # NoHandler
    /\ handler.msg.audio # Malformed
    /\ OnMessageResume

\* ---- C1 --------------------------------------------------------------------
\* C1: while the component is mounted, once the status is 'error' or
\* 'disconnected' it changes again only in a step of connect() (or of
\* disconnect(), which resets it to 'disconnected').
C1_TerminalUntilConnect ==
    [][(mounted' /\ status \in {"error", "disconnected"} /\ status' # status)
          => (ConnectStep \/ DisconnectStep)]_vars

\* ---- C2 --------------------------------------------------------------------
\* C2: once a disconnect() that ran during a connect() call has completed,
\* and until the next connect(), the status is 'disconnected' and that call
\* holds no microphone stream, no remote session and no capture processor.
C2_DisconnectCancelsConnect ==
    \A k \in cancelled :
        /\ status = "disconnected"
        /\ stream[k] # "live"
        /\ ws[k] \notin {"connecting", "open"}
        /\ processor[k] # "active"

\* ---- C3 --------------------------------------------------------------------
\* C3: the step that handles a remote close or a remote error leaves no
\* capture processor running and no active playback handle.
C3_RemoteEndTearsDown ==
    [][(\E k \in Attempts : RemoteClose(k) \/ RemoteError(k))
          => (sourcesRef' = {} /\ \A k \in Attempts : processor'[k] # "active")]_vars

\* ---- C4 --------------------------------------------------------------------
\* C4: a step that handles 'interrupted' leaves the active set empty and the
\* cursor at 0, however many handles were queued; handled in the state an
\* interruption leaves, it changes nothing of the component.
C4_InterruptionClears ==
    [][InterruptedStep =>
          /\ sourcesRef' = {}
          /\ nextStartTimeRef' = 0
          /\ (/\ handler = NoHandler
              /\ sourcesRef = {}
              /\ nextStartTimeRef = 0
              /\ currentOutputBuffer = <<>>
              /\ realtimeText = NoText) => UNCHANGED <<reactVars, refVars>>]_vars

\* Two queued handles have been stopped by an interruption.
C4_Witness ==
    /\ stopped = 2
    /\ sourcesRef = {}
    /\ nextStartTimeRef = 0
    /\ handler = NoHandler

\* ---- C5 --------------------------------------------------------------------
\* C5: the active set is empty after every step in which a disconnect() call
\* completes.
C5_DisconnectEmptiesHandles ==
    [][DisconnectStep => sourcesRef' = {}]_vars

\* ---- C6 --------------------------------------------------------------------
\* C6: connect() and disconnect() leave the cursor at 0.
C6_CursorResetBySession ==
    [][(ConnectStep \/ DisconnectStep) => nextStartTimeRef' = 0]_vars

\* ---- C7 --------------------------------------------------------------------
\* C7 as stated: a frame starts no earlier than the device clock, and exactly
\* at the end of the frame scheduled before it.
C7_BackToBack ==
    [][ScheduleStep =>
          /\ nextStartTimeRef >= currentTime
          /\ sourcesRef # {} => nextStartTimeRef = LastEnd(sourcesRef)]_vars

\* C7 as amended: a frame starts no earlier than the device clock, and at the
\* later of the end of the frame scheduled before it and the device clock.
C7_StitchedOrAtClock ==
    [][ScheduleStep =>
          /\ nextStartTimeRef >= currentTime
          /\ sourcesRef # {} =>
                nextStartTimeRef = Max(LastEnd(sourcesRef), currentTime)]_vars

\* Two frames are queued with a gap between them.
C7_Witness ==
    \E s1 \in sourcesRef, s2 \in sourcesRef : s2.start > s1.start + s1.duration

\* ---- C8 --------------------------------------------------------------------
\* C8: the handler of an audio payload raises the cursor to the device clock
\* before it decodes; the frame then starts at the cursor, which is no
\* earlier than the device clock nor than the end of any queued frame, and
\* the cursor moves to the end of the frame (unless the same message also
\* carries 'interrupted').
C8_ScheduledAtMax ==
    [][/\ DecodeStep => nextStartTimeRef' = Max(nextStartTimeRef, currentTime)
       /\ ScheduleStep =>
             /\ nextStartTimeRef >= currentTime
             /\ \A s \in sourcesRef : nextStartTimeRef >= s.start + s.duration
             /\ ~handler.msg.interrupted =>
                   /\ [start |-> nextStartTimeRef, duration |-> handler.msg.audio]
                          \in sourcesRef'
                   /\ nextStartTimeRef' = nextStartTimeRef + handler.msg.audio]_vars

\* A frame was started at a device clock that had passed the cursor.
C8_Witness ==
    /\ handler = NoHandler
    /\ \E s \in sourcesRef :
          /\ s.start = currentTime
          /\ s.start > 0
          /\ nextStartTimeRef = s.start + s.duration

\* ---- C9 --------------------------------------------------------------------
\* C9: the cursor never decreases, except to 0 in a step that handles an
\* interruption or completes a disconnect().
C9_CursorMonotone ==
    [][\/ nextStartTimeRef' >= nextStartTimeRef
       \/ /\ nextStartTimeRef' = 0
          /\ InterruptedStep \/ DisconnectStep]_vars

\* Connected, with two frames queued ahead of the device clock.
C9_Witness ==
    /\ status = "connected"
    /\ Cardinality(sourcesRef) = 2
    /\ nextStartTimeRef > currentTime

\* ---- C10 -------------------------------------------------------------------
\* The side and text of the entries of a transcript
Texts(tr) == [i \in 1..Len(tr) |-> [role |-> tr[i].role, text |-> tr[i].text]]

\* The entries a transcript tr holds once the queued updates q have run, each
\* appended entry with the text its buffer held when its update was queued
RECURSIVE Committed(_, _)
Committed(tr, q) ==
    IF q = <<>> THEN tr
    ELSE Committed(IF Head(q).kind = "set" THEN <<>>
                   ELSE Append(tr, [role |-> Head(q).role, text |-> Head(q).atCall]),
                   Tail(q))

\* A step that handles a turn-complete while both buffers are non-blank
TurnCompleteStep ==
    /\ Trim(currentInputBuffer) # <<>>
    /\ Trim(currentOutputBuffer) # <<>>
    /\ \E k \in Attempts, e \in Choices :
          OnMessage(k, Msg(<<>>, <<>>, TRUE, NoAudio, FALSE), e[1], e[2])

\* C10: a turn-complete handled while both buffers are non-blank commits two
\* entries, the user's before the agent's, with the trimmed text of the
\* buffers; and what React renders is what was committed.
C10_CommitsWhatWasBuffered ==
    [][/\ TurnCompleteStep =>
             Committed(Texts(transcript'), updateQueue')
                 = Committed(Texts(transcript), updateQueue)
                       \o <<[role |-> "user", text |-> Trim(currentInputBuffer)],
                            [role |-> "model", text |-> Trim(currentOutputBuffer)]>>
       /\ LET c == Committed(Texts(transcript), updateQueue)
          IN  (/\ Render
               /\ Len(c) >= 2
               /\ c[Len(c) - 1].role = "user"
               /\ c[Len(c)].role = "model") => Texts(transcript') = c]_vars

\* ---- C11 -------------------------------------------------------------------
\* A step that handles a turn-complete, whatever the buffers hold
TurnCompleteHandled ==
    \E k \in Attempts, e \in Choices :
        OnMessage(k, Msg(<<>>, <<>>, TRUE, NoAudio, FALSE), e[1], e[2])

\* C11: a turn-complete leaves both buffers empty, whatever they held, and
\* one handled while both are empty appends no entry.
C11_CommittedOncePerTurn ==
    [][TurnCompleteHandled =>
          /\ currentInputBuffer' = <<>>
          /\ currentOutputBuffer' = <<>>
          /\ (currentInputBuffer = <<>> /\ currentOutputBuffer = <<>>) =>
                Committed(Texts(transcript'), updateQueue')
                    = Committed(Texts(transcript), updateQueue)]_vars

\* ---- C12 -------------------------------------------------------------------
\* What React shows once it has rendered the updates queued in the next state
RenderedNext ==
    Texts(Flush(transcript', updateQueue', currentInputBuffer',
                currentOutputBuffer', now'))

\* C12: a step that handles 'interrupted' empties the agent-side buffer,
\* appends no entry and leaves the user-side buffer as it is; and the user
\* text that is buffered after an interruption (the partial view is empty
\* while the user-side buffer is not) is the text of the user entry the next
\* turn-complete appends.
C12_InterruptionDiscardsAgentOnly ==
    [][/\ InterruptedStep =>
             /\ currentOutputBuffer' = <<>>
             /\ currentInputBuffer' = currentInputBuffer
             /\ transcript' = transcript
             /\ updateQueue' = updateQueue
       /\ (/\ TurnCompleteHandled
           /\ realtimeText = NoText
           /\ Trim(currentInputBuffer) # <<>>) =>
             LET n == Len(transcript) + Len(updateQueue)
             IN  /\ Len(RenderedNext) > n
                 /\ RenderedNext[n + 1]
                        = [role |-> "user", text |-> Trim(currentInputBuffer)]]_vars

\* ---- C13 -------------------------------------------------------------------
\* s is a prefix of t
IsPrefix(s, t) == Len(s) <= Len(t) /\ SubSeq(t, 1, Len(s)) = s

\* A step in which connect() replaces the transcript by []: the call itself,
\* or the render that runs the update the call has queued
ClearStep ==
    \/ ConnectStep
    \/ Render /\ \E i \in 1..Len(updateQueue) : updateQueue[i].kind = "set"

\* C13: in every step that is not the start of a new connection the
\* transcript keeps its entries, unchanged and in place, and may only grow at
\* its end; so it becomes empty only when a new connection starts.
C13_AppendOnly ==
    [][ClearStep \/ IsPrefix(transcript, transcript')]_vars

\* A second connection has emptied the transcript and appended two entries.
C13_Witness ==
    /\ attempts = 2
    /\ Len(transcript) = 2
    /\ updateQueue = <<>>

\* ---- C14 -------------------------------------------------------------------
\* C14: no connect() call is made while the status is 'connecting' or
\* 'connected': the button is disabled in the first case and calls
\* disconnect() in the second, so the transcript, the buffers, the microphone
\* and the remote session are left as they are.
C14_ConnectGuarded ==
    [][ConnectStep => status \notin {"connecting", "connected"}]_vars

\* A connect() call is in progress and a click on the button would find
\* everything else that connect() needs.
C14_Witness ==
    /\ status = "connecting"
    /\ mounted
    /\ ~permissionDenied
    /\ ~isConnected
    /\ Rendered
    /\ attempts < MaxConnects

\* ---- C15 -------------------------------------------------------------------
\* connect() calls that ended before getUserMedia gave them a stream
Halted == {k \in Attempts : call[k] = "done" /\ stream[k] = "none"}

\* C15: the step in which getUserMedia refuses access leaves the status
\* 'error' with the permission-denied flag and message set; and a connect()
\* call that ended without a microphone stream never has a remote session:
\* ai.live.connect was not called for it and none of its callbacks can run.
C15_PermissionDeniedHalts ==
    [][/\ \A k \in Attempts : GumReject(k, "NotAllowedError") =>
             /\ status' = "error"
             /\ permissionDenied'
             /\ errorMessage' = "mic-denied"
             /\ ~isConnected'
             /\ promise'[k] = "none"
       /\ \A k \in Halted : /\ promise'[k] = "none"
                            /\ ws'[k] = "none"
                            /\ processor'[k] = "none"]_vars

\* Access was refused to a connect() call, which ended in 'error'.
C15_Witness ==
    /\ Halted # {}
    /\ status = "error"
    /\ permissionDenied
    /\ errorMessage = "mic-denied"

\* ---- C16 -------------------------------------------------------------------
\* C16: the step in which getUserMedia fails for want of a device leaves the
\* status 'error' with a reason other than the refused permission: the
\* permission-denied flag is not set, and the button lets the user retry.
C16_DeviceUnavailableDistinct ==
    [][\A k \in Attempts : GumReject(k, "NotFoundError") =>
          /\ status' = "error"
          /\ ~permissionDenied'
          /\ errorMessage' # "mic-denied"
          /\ (mounted => ButtonConnects')]_vars

\* ---- C17 -------------------------------------------------------------------
\* The state a complete run of disconnect() leaves (lines 238-263): what the
\* refs hold is closed, stopped or null, and the transient state is reset.
TornDown ==
    /\ sessionRef # 0 => ws[sessionRef] # "open"
    /\ streamRef # 0 => stream[streamRef] # "live"
    /\ processorRef # 0 => processor[processorRef] # "active"
    /\ inputContextRef = NULL
    /\ audioContextRef = NULL
    /\ sourcesRef = {}
    /\ status = "disconnected"
    /\ ~isConnected
    /\ volume = 0
    /\ errorMessage = ""
    /\ ~permissionDenied
    /\ realtimeText = NoText

\* C17: every disconnect() call that ends has run its whole teardown,
\* whatever state the remote session is in; and a call made in the state a
\* teardown leaves changes nothing: two calls in a row leave the state one
\* call leaves.
C17_DisconnectIdempotent ==
    [][/\ DisconnectStep => TornDown'
       /\ (TornDown /\ (DisconnectClick \/ Unmount)) =>
             UNCHANGED <<reactVars, refVars, attempts, call, promise, ws, stream,
                         processor, currentTime, now, frame, outbox, sent, handler>>]_vars

\* ---- C18 -------------------------------------------------------------------
\* A step in which a disconnect() call runs to its end (line 263)
DisconnectCompletes ==
    \/ /\ DisconnectClick \/ Unmount
       /\ sessionRef = 0 \/ promise[sessionRef] = "resolved"
    \/ \E j \in Attempts : DisconnectResume(j) /\ promise[j] = "resolved"

C19_ExclusiveDevices ==
    /\ Cardinality({k \in Attempts : stream[k] = "live"}) <= 1
    /\ Cardinality({k \in Attempts : processor[k] = "active"}) <= 1
    /\ Cardinality({k \in Attempts : ws[k] \in {"connecting", "open"}}) <= 1

\* ---- C20 -------------------------------------------------------------------
\* C20: the frames of one session are handed to sendRealtimeInput in the order
\* of their capture: of two frames sent, the one captured first was sent
\* first, and every frame whose send still waits on the session promise was
\* captured after every frame already sent.
C20_SentInCaptureOrder ==
    \A k \in Attempts :
        /\ \A i, j \in DOMAIN sent[k] : i < j => sent[k][i] < sent[k][j]
        /\ \A i \in DOMAIN sent[k], j \in DOMAIN outbox[k] : sent[k][i] < outbox[k][j]

\* Two frames of one session were captured and both were sent
C20_Witness == \E k \in Attempts : sent[k] = <<1, 2>> /\ outbox[k] = <<>>

\* ---- C21 -------------------------------------------------------------------
\* C21: while an onmessage call is suspended at its await the only step taken
\* is the rest of that call, so every effect of a message precedes every
\* effect of the next one; and the step that handles an interruption leaves
\* no call suspended and no handle active, so no frame of an earlier message
\* is started after it.
C21_DeliveryOrder ==
    [][/\ handler # NoHandler => OnMessageResume
       /\ InterruptedStep => (handler' = NoHandler /\ sourcesRef' = {})]_vars

\* A call is suspended at its await with a payload that decodes, while the
\* frame of an earlier message is queued and the socket can deliver more.
C21_Witness ==
    /\ handler # NoHandler
    /\ handler.msg.audio > 0
    /\ sourcesRef # {}
    /\ \E k \in Attempts : ws[k] = "open"

\* ---- C22 -------------------------------------------------------------------
\* A step in which the await of line 181 throws: the payload has an odd
\* number of bytes and the handler ends there
DecodeFailureStep ==
    /\ handler # NoHandler
    /\ handler.msg.audio = Malformed
    /\ OnMessageResume

\* C22: the step in which a payload fails to decode changes neither the
\* status, the transcript, the buffers nor the active set, and leaves what
\* the handler of the next payload needs: no call suspended, the output
\* context in place and every session as it was.
C22_DecodeFailureDropsFrame ==
    [][DecodeFailureStep =>
          /\ UNCHANGED <<status, isConnected, errorMessage, transcript, updateQueue,
                         currentInputBuffer, currentOutputBuffer, sourcesRef, ws>>
          /\ handler' = NoHandler
          /\ audioContextRef' # NULL]_vars

\* A malformed payload is about to fail while a frame is queued and the
\* socket is open.
C22_Witness ==
    /\ handler # NoHandler
    /\ handler.msg.audio = Malformed
    /\ sourcesRef # {}
    /\ status = "connected"

\* ---- C23 -------------------------------------------------------------------
\* C23: a step that handles 'interrupted' leaves the status, the capture
\* pipeline, the remote sessions and the transcript as they are, and leaves
\* the state in which a turn starts on the agent's side: no call suspended, no
\* handle active, the cursor at 0, the agent-side buffer and the partial view
\* empty; a payload handled in that state starts at the device clock and a
\* delta of the agent's text handled in it is the whole of the partial view.
C23_InterruptionNonTerminal ==
    [][/\ InterruptedStep =>
             /\ UNCHANGED <<status, isConnected, errorMessage, transcript, updateQueue,
                            streamRef, processorRef, inputContextRef, stream, processor,
                            sessionRef, ws, promise, audioContextRef>>
             /\ handler' = NoHandler
             /\ sourcesRef' = {}
             /\ nextStartTimeRef' = 0
             /\ currentOutputBuffer' = <<>>
             /\ realtimeText' = NoText
       /\ (DecodeStep /\ sourcesRef = {} /\ nextStartTimeRef = 0) =>
             nextStartTimeRef' = currentTime
       /\ (/\ currentOutputBuffer = <<>>
           /\ \E k \in Attempts :
                  OnMessage(k, Msg(<<>>, <<"a">>, FALSE, NoAudio, FALSE), TRUE, TRUE)) =>
             realtimeText' = [role |-> "model", text |-> <<"a">>]]_vars

\* An interruption has stopped a handle of a connected session that has an
\* entry in its transcript, text of the user buffered and its capture running.
C23_Witness ==
    /\ stopped >= 1
    /\ status = "connected"
    /\ Len(transcript) > 0
    /\ currentInputBuffer # <<>>
    /\ \E k \in Attempts : processor[k] = "active" /\ ws[k] = "open"
    /\ currentTime > 0

\* ---- C24 -------------------------------------------------------------------
\* C24: no two entries of the transcript have the same identity.
C24_DistinctIdentities ==
    \A i, j \in DOMAIN transcript : i # j => transcript[i].id # transcript[j].id

\* ---- C25 -------------------------------------------------------------------
\* C25: the bytes decodeAudioData returns for what encodeAudioData made of a
\* byte buffer of even length are the bytes of that buffer, as many and in
\* the same order.
C25_TransportRoundTrip ==
    (frame.stage = "decoded" /\ frame.from = "bytes") =>
        /\ Len(frame.bytes) = Len(frame.data)
        /\ \A i \in 1..Len(frame.data) : frame.bytes[i] = frame.data[i]

\* A buffer of four bytes, encoded with padding, has been decoded.
C25_Witness ==
    /\ frame.stage = "decoded"
    /\ frame.from = "bytes"
    /\ frame.data = <<255, 0, 128, 127>>

\* ---- C26 -------------------------------------------------------------------
\* C26: every sample of [-1, 1] that createBlob has converted to 16-bit PCM
\* and convertPCMToAudioBuffer has converted back is within 1/32768 of the
\* original, the samples 1 and -1 included.
C26_SampleRoundTrip ==
    (frame.stage = "decoded" /\ frame.from = "samples") =>
        /\ Len(frame.channelData) = Len(frame.data)
        /\ \A i \in 1..Len(frame.data) :
              /\ frame.channelData[i] - frame.data[i] <= 2
              /\ frame.data[i] - frame.channelData[i] <= 2

\* ---- C27 -------------------------------------------------------------------
\* A callback of the session of a connect() call that is not the latest runs
StaleCallback ==
    \E k \in Attempts :
        /\ k < attempts
        /\ \/ RemoteOpen(k)
           \/ RemoteError(k)
           \/ RemoteClose(k)
           \/ \E m \in AudioMessages : OnMessage(k, m, FALSE, FALSE)

\* C27: a callback of an earlier session, run after a later connect() has
\* started, changes neither the status, the transcript, the buffers nor the
\* playback state.
C27_StaleCallbacksInert ==
    [][StaleCallback =>
          UNCHANGED <<status, isConnected, transcript, updateQueue, currentInputBuffer,
                      currentOutputBuffer, sourcesRef, nextStartTimeRef>>]_vars

\* ---- C28 -------------------------------------------------------------------
\* C28: whenever the status is 'connecting' it is 'connected', 'error' or
\* 'disconnected' at some later time.
C28_LeavesConnecting ==
    (status = "connecting") ~> (status \in {"connected", "error", "disconnected"})

\* ---- C29 -------------------------------------------------------------------
\* C29: a frame is handed to sendRealtimeInput only while the status is
\* 'connected'.
C29_SentOnlyWhileConnected ==
    [][(\E k \in Attempts : SendRealtimeInput(k)) => status = "connected"]_vars

\* ---- C30 -------------------------------------------------------------------
\* C30: with connect() called by the button only, isConnected is true exactly
\* when the status is 'connected'.
C30_IsConnectedIffConnected == isConnected <=> (status = "connected")

\* A second connect() call has reached 'connected' after the first session
\* ended.
C30_Witness ==
    /\ attempts = 2
    /\ isConnected
    /\ status = "connected"
    /\ ws[1] \in {"closed", "errored"}
====
